---------------------------- MODULE Spec2Model ----------------------------
(***************************************************************************)
(* A model of vm_translator_rs: the parser of VM instruction lines, the    *)
(* Translator that emits Hack assembly for each parsed instruction, the    *)
(* two drivers translate_file and translate_directory, and the Hack target *)
(* machine on which the emitted assembly is executed.                      *)
(*                                                                         *)
(* Lines of text are TLA+ strings; they are taken apart character by       *)
(* character with Len and SubSeq and put together with \o and ToString, so *)
(* that the text the program reads and writes is the text of the model.    *)
(***************************************************************************)
EXTENDS Integers, Sequences, FiniteSets, TLC

VARIABLES
    translator,   \* the Translator struct: static_base, asm, next_instr, call_counter
    pc,           \* where the driver (translate_file / translate_directory) stands
    mode,         \* "file" or "directory": which driver runs
    units,        \* number of units whose static_base has been set (directory)
    consumed,     \* the lines handed to parse_instruction so far, in order
    call_log,     \* what each call() was given and the label it made, in order
    line,         \* the line given to parse_instruction (parser specification)
    parsed,       \* what parse_instruction returned for it
    prog,         \* the VM lines whose translation the target machine runs
    rom,          \* the target's instruction memory, once the assembler loaded it
    sites,        \* where the code of each Call and each Return of prog lies in rom
    steps,        \* number of instructions the target has executed
    ram,          \* the target machine's data memory (address -> 16-bit word)
    ram0,         \* the data memory when execution started
    areg,         \* the target's A register
    dreg,         \* the target's D register
    pcreg,        \* the target's program counter
    mstate,       \* "off", "idle", "running", "halted" or "rejected"
    frames,       \* the machine state noted at the start of each call under way
    returned      \* the note of the call whose Return just jumped back, if any

vars == << translator, pc, mode, units, consumed, call_log, line, parsed,
           prog, rom, sites, steps, ram, ram0, areg, dreg, pcreg, mstate,
           frames, returned >>

genVars   == << translator, pc, mode, units, consumed, call_log >>
parseVars == << line, parsed >>
execVars  == << prog, rom, sites, steps, ram, ram0, areg, dreg, pcreg, mstate,
               frames, returned >>

-----------------------------------------------------------------------------
(* Bounds of the model and constants of the program.                       *)

\* lines translated in one run of a driver
MaxLines == 3
\* units of one directory
MaxUnits == 2
\* largest index of a push/pop pair that is executed
MaxIdx == 2
\* largest number of arguments of a call that is executed
MaxArgs == 2
\* instructions the target executes in one run
MaxSteps == 400

\* u16: the type of next_instr, call_counter, idx, num_args, num_local_vars
U16Mod == 65536
\* the value field of a Hack A-instruction is 15 bits wide
A15Mod == 2 ^ 15
TEMP_OFFSET == 5

-----------------------------------------------------------------------------
(* Text.                                                                   *)

Char(s, i) == SubSeq(s, i, i)

Digits == {"0", "1", "2", "3", "4", "5", "6", "7", "8", "9"}

DigitVal(c) ==
    CASE c = "0" -> 0 [] c = "1" -> 1 [] c = "2" -> 2 [] c = "3" -> 3
      [] c = "4" -> 4 [] c = "5" -> 5 [] c = "6" -> 6 [] c = "7" -> 7
      [] c = "8" -> 8 [] c = "9" -> 9

\* the position of the first character of s that is c, 0 when there is none
RECURSIVE IndexFrom(_, _, _)
IndexFrom(s, c, i) ==
    IF i > Len(s) THEN 0
    ELSE IF Char(s, i) = c THEN i
    ELSE IndexFrom(s, c, i + 1)

IndexOf(s, c) == IndexFrom(s, c, 1)

\* str::split(" "): every single space separates, so two spaces in a row
\* give an empty piece, and a line without a space is one piece
RECURSIVE split(_, _)
split(s, sep) ==
    LET i == IndexOf(s, sep)
    IN  IF i = 0 THEN << s >>
        ELSE << SubSeq(s, 1, i - 1) >> \o split(SubSeq(s, i + 1, Len(s)), sep)

\* the value of a string of decimal digits
RECURSIVE DecValue(_, _)
DecValue(s, acc) ==
    IF s = "" THEN acc
    ELSE DecValue(SubSeq(s, 2, Len(s)), 10 * acc + DigitVal(Char(s, 1)))

AllDigits(s) == \A i \in 1..Len(s) : Char(s, i) \in Digits

\* str::parse::<u16>(): an optional "+", then one or more digits, value at
\* most 65535; -1 stands for Err
parse_u16(s) ==
    LET body == IF Len(s) > 1 /\ Char(s, 1) = "+" THEN SubSeq(s, 2, Len(s)) ELSE s
    IN  IF body = "" \/ ~AllDigits(body) THEN -1
        ELSE IF DecValue(body, 0) >= U16Mod THEN -1
        ELSE DecValue(body, 0)

-----------------------------------------------------------------------------
(* mod parser.                                                             *)

\* a panic of parse_instruction: no instruction value is returned
Panic == [op |-> "panic"]

\* parse_instruction has not returned yet
NotParsed == [op |-> "none"]

\* the operand split_instr[k] (0-based, as in the source) parsed as u16
Operand(split_instr, k) ==
    IF Len(split_instr) < k + 1 THEN -1 ELSE parse_u16(split_instr[k + 1])

\* the inner match of "pop": the segment names it knows
PopSegment(name) ==
    CASE name = "local"    -> "Local"
      [] name = "argument" -> "Argument"
      [] name = "this"     -> "This"
      [] name = "that"     -> "That"
      [] name = "static"   -> "Static"
      [] name = "pointer"  -> "Pointer"
      [] name = "temp"     -> "Temp"
      [] OTHER             -> "none"

\* the inner match of "push": the segment names it knows
PushSegment(name) ==
    CASE name = "local"    -> "Local"
      [] name = "argument" -> "Argument"
      [] name = "this"     -> "This"
      [] name = "that"     -> "That"
      [] name = "constant" -> "Constant"
      [] name = "static"   -> "Static"
      [] name = "pointer"  -> "Pointer"
      [] name = "temp"     -> "Temp"
      [] OTHER             -> "none"

parse_pop(split_instr) ==
    IF Len(split_instr) < 2 THEN Panic
    ELSE IF PopSegment(split_instr[2]) = "none" THEN Panic
    ELSE IF Operand(split_instr, 2) = -1 THEN Panic
    ELSE [op |-> "Pop", segment |-> PopSegment(split_instr[2]),
          idx |-> Operand(split_instr, 2)]

parse_push(split_instr) ==
    IF Len(split_instr) < 2 THEN Panic
    ELSE IF PushSegment(split_instr[2]) = "none" THEN Panic
    ELSE IF Operand(split_instr, 2) = -1 THEN Panic
    ELSE [op |-> "Push", segment |-> PushSegment(split_instr[2]),
          idx |-> Operand(split_instr, 2)]

parse_label(variant, split_instr) ==
    IF Len(split_instr) < 2 THEN Panic
    ELSE [op |-> variant, label |-> split_instr[2]]

parse_function(split_instr) ==
    IF Len(split_instr) < 2 \/ Operand(split_instr, 2) = -1 THEN Panic
    ELSE [op |-> "Function", name |-> split_instr[2],
          num_local_vars |-> Operand(split_instr, 2)]

parse_call(split_instr) ==
    IF Len(split_instr) < 2 \/ Operand(split_instr, 2) = -1 THEN Panic
    ELSE [op |-> "Call", name |-> split_instr[2],
          num_args |-> Operand(split_instr, 2)]

parse_instruction(instruction) ==
    LET split_instr == split(instruction, " ")
        first == split_instr[1]
    IN  CASE first = "add"      -> [op |-> "Add"]
          [] first = "sub"      -> [op |-> "Sub"]
          [] first = "neg"      -> [op |-> "Neg"]
          [] first = "eq"       -> [op |-> "Eq"]
          [] first = "gt"       -> [op |-> "Gt"]
          [] first = "lt"       -> [op |-> "Lt"]
          [] first = "and"      -> [op |-> "And"]
          [] first = "or"       -> [op |-> "Or"]
          [] first = "not"      -> [op |-> "Not"]
          [] first = "pop"      -> parse_pop(split_instr)
          [] first = "push"     -> parse_push(split_instr)
          [] first = "label"    -> parse_label("Label", split_instr)
          [] first = "goto"     -> parse_label("Goto", split_instr)
          [] first = "if-goto"  -> parse_label("IfGoto", split_instr)
          [] first = "function" -> parse_function(split_instr)
          [] first = "call"     -> parse_call(split_instr)
          [] first = "return"   -> [op |-> "Return"]
          [] OTHER              -> Panic

-----------------------------------------------------------------------------
(* mod translator.  Every operation takes the Translator t and returns the *)
(* Translator after it.                                                    *)

ADD      == << "@SP", "AM=M-1", "D=M", "A=A-1", "M=M+D" >>
SUBTRACT == << "@SP", "AM=M-1", "D=M", "A=A-1", "M=M-D" >>
NEG      == << "@SP", "A=M-1", "M=-M" >>
AND      == << "@SP", "AM=M-1", "D=M", "A=A-1", "M=D&M" >>
OR       == << "@SP", "AM=M-1", "D=M", "A=A-1", "M=D|M" >>
NOT      == << "@SP", "A=M-1", "M=!M" >>
RETURN   == <<
    "@LCL", "D=M", "@7", "M=D", "@5", "D=A", "@7", "A=M-D", "D=M", "@8", "M=D", "@SP", "A=M-1",
    "D=M", "@ARG", "A=M", "M=D", "@ARG", "D=M+1", "@SP", "M=D", "@7", "AM=M-1", "D=M", "@THAT",
    "M=D", "@7", "AM=M-1", "D=M", "@THIS", "M=D", "@7", "AM=M-1", "D=M", "@ARG", "M=D", "@7",
    "AM=M-1", "D=M", "@LCL", "M=D", "@8", "A=M", "0;JMP" >>

\* u16 addition.  An overflow wraps in a release build and aborts a debug
\* build; no run of this model comes near 65536.
U16Add(a, b) == (a + b) % U16Mod

\* format!("{}", n) of a u16
Fmt(n) == ToString(n)

seg_ptr(segment) ==
    CASE segment = "Local"    -> "LCL"
      [] segment = "Argument" -> "ARG"
      [] segment = "This"     -> "THIS"
      [] segment = "That"     -> "THAT"

Translator_new(static_base) ==
    [ static_base  |-> static_base,
      asm          |-> << >>,
      next_instr   |-> 0,
      call_counter |-> 0 ]

\* a line is a label definition when its first character is "("
IsLabelLine(instr) == Char(instr, 1) = "("

\* add_instr counting every line, label definitions too
add_instr_mut(t, instr) ==
    [ t EXCEPT !.asm = Append(@, instr), !.next_instr = U16Add(@, 1) ]

add_instr(t, instr) ==
    [ t EXCEPT !.asm = Append(@, instr),
               !.next_instr = IF ~IsLabelLine(instr) THEN U16Add(@, 1) ELSE @ ]

\* add_instr on each line of a sequence, in order: what the loop has done
\* when it ends, every line pushed and next_instr advanced once for each
\* line that is not a label
const_instr_to_vec(t, const_instr) ==
    [ t EXCEPT !.asm = @ \o const_instr,
               !.next_instr =
                   U16Add(@, Cardinality({ i \in DOMAIN const_instr :
                                            ~IsLabelLine(const_instr[i]) })) ]

\* logical_comp taking the count before its own first six instructions
logical_comp_mut(t, jmp_instr) ==
    const_instr_to_vec(t,
        << "@SP", "AM=M-1", "D=M", "A=A-1", "D=M-D", "M=-1",
           "@" \o Fmt(U16Add(t.next_instr, 5)),
           "D;" \o jmp_instr,
           "@SP", "A=M-1", "M=0" >>)

logical_comp(t, jmp_instr) ==
    LET t6 == const_instr_to_vec(t,
                  << "@SP", "AM=M-1", "D=M", "A=A-1", "D=M-D", "M=-1" >>)
    IN  const_instr_to_vec(t6,
            << "@" \o Fmt(U16Add(t6.next_instr, 5)),
               "D;" \o jmp_instr,
               "@SP", "A=M-1", "M=0" >>)

\* basic_pop storing D as it is, the address still added to the value
basic_pop_mut(t, segment, idx) ==
    const_instr_to_vec(t,
        << "@" \o Fmt(idx), "D=A", "@" \o seg_ptr(segment), "D=D+M",
           "@SP", "AM=M-1", "D=D+M", "A=D-M", "M=D" >>)

basic_pop(t, segment, idx) ==
    const_instr_to_vec(t,
        << "@" \o Fmt(idx), "D=A", "@" \o seg_ptr(segment), "D=D+M",
           "@SP", "AM=M-1", "D=D+M", "A=D-M", "M=D-A" >>)

pop_temp(t, idx) ==
    LET mem_addr == U16Add(TEMP_OFFSET, idx)
    IN  const_instr_to_vec(t,
            << "@SP", "AM=M-1", "D=M", "@" \o Fmt(mem_addr), "M=D" >>)

\* the match of pop_ptr and push_ptr taking every idx other than 0 for 1
ptr_seg_ptr_mut(idx) ==
    CASE idx = 0 -> seg_ptr("This")
      [] OTHER   -> seg_ptr("That")

\* the pointer cell of push/pop pointer idx; "panic" for idx other than 0, 1
ptr_seg_ptr(idx) ==
    CASE idx = 0 -> seg_ptr("This")
      [] idx = 1 -> seg_ptr("That")
      [] OTHER   -> "panic"

pop_ptr(t, idx) ==
    const_instr_to_vec(t,
        << "@SP", "AM=M-1", "D=M", "@" \o ptr_seg_ptr(idx), "M=D" >>)

pop_static(t, idx) ==
    const_instr_to_vec(t,
        << "@SP", "AM=M-1", "D=M",
           "@" \o t.static_base \o "." \o Fmt(idx), "M=D" >>)

push_const(t, idx) ==
    const_instr_to_vec(t,
        << "@" \o Fmt(idx), "D=A", "@SP", "M=M+1", "A=M-1", "M=D" >>)

basic_push(t, segment, idx) ==
    const_instr_to_vec(t,
        << "@" \o Fmt(idx), "D=A", "@" \o seg_ptr(segment), "A=D+M", "D=M",
           "@SP", "M=M+1", "A=M-1", "M=D" >>)

push_temp(t, idx) ==
    LET mem_addr == U16Add(TEMP_OFFSET, idx)
    IN  const_instr_to_vec(t,
            << "@" \o Fmt(mem_addr), "D=M", "@SP", "M=M+1", "A=M-1", "M=D" >>)

push_ptr(t, idx) ==
    const_instr_to_vec(t,
        << "@" \o ptr_seg_ptr(idx), "D=M", "@SP", "M=M+1", "A=M-1", "M=D" >>)

push_static(t, idx) ==
    const_instr_to_vec(t,
        << "@" \o t.static_base \o "." \o Fmt(idx), "D=M",
           "@SP", "M=M+1", "A=M-1", "M=D" >>)

label_fn(t, label) == add_instr(t, "(" \o label \o ")")

goto(t, label) == const_instr_to_vec(t, << "@" \o label, "0;JMP" >>)

if_goto(t, label) ==
    const_instr_to_vec(t, << "@SP", "AM=M-1", "D=M", "@" \o label, "D;JNE" >>)

\* the body of function()'s loop, num_local_vars times
RECURSIVE init_locals(_, _)
init_locals(t, n) ==
    IF n = 0 THEN t
    ELSE init_locals(
             const_instr_to_vec(t, << "@SP", "M=M+1", "A=M-1", "M=0" >>), n - 1)

function(t, name, num_local_vars) ==
    init_locals(add_instr(t, "(" \o name \o ")"), num_local_vars)

\* call()'s local return_addr_label
return_addr_label(name, call_counter) == name \o "$ret." \o Fmt(call_counter)

\* arg_offset counting four saved words instead of five
arg_offset_mut(num_args) == U16Add(4, num_args)

\* call()'s local arg_offset
arg_offset(num_args) == U16Add(5, num_args)

\* the line that defines the return-address label, after the jump
call_label_line(name, call_counter) ==
    "(" \o return_addr_label(name, call_counter) \o ")"

\* call() forgetting to advance the call-site counter
call_count_mut(call_counter) == call_counter

\* call()'s update of the call-site counter
call_count(call_counter) == U16Add(call_counter, 1)

call(t, name, num_args) ==
    LET label == return_addr_label(name, t.call_counter)
        t1 == const_instr_to_vec(t,
                << "@" \o label, "D=A", "@SP", "M=M+1", "A=M-1", "M=D",
                   "@LCL", "D=M", "@SP", "M=M+1", "A=M-1", "M=D",
                   "@ARG", "D=M", "@SP", "M=M+1", "A=M-1", "M=D",
                   "@THIS", "D=M", "@SP", "M=M+1", "A=M-1", "M=D",
                   "@THAT", "D=M", "@SP", "M=M+1", "A=M-1", "M=D",
                   "@" \o Fmt(arg_offset(num_args)), "D=A", "@SP", "D=M-D",
                   "@ARG", "M=D", "@SP", "D=M", "@LCL", "M=D",
                   "@" \o name, "0;JMP",
                   call_label_line(name, t.call_counter) >>)
    IN  [ t1 EXCEPT !.call_counter = call_count(@) ]

\* set_bootstrap without the lines that set SP
set_bootstrap_mut(t) == call(t, "Sys.init", 0)

set_bootstrap(t) ==
    call(const_instr_to_vec(t, << "@256", "D=A", "@SP", "M=D" >>), "Sys.init", 0)

\* the panics of translate(): pop constant, and push/pop pointer with an
\* index other than 0 and 1
translate_panics(instruction) ==
    \/ instruction.op = "Pop" /\ instruction.segment = "Constant"
    \/ /\ instruction.op \in {"Pop", "Push"}
       /\ instruction.segment = "Pointer"
       /\ ptr_seg_ptr(instruction.idx) = "panic"

translate_pop(t, segment, idx) ==
    CASE segment \in {"Local", "Argument", "This", "That"} -> basic_pop(t, segment, idx)
      [] segment = "Static"  -> pop_static(t, idx)
      [] segment = "Pointer" -> pop_ptr(t, idx)
      [] segment = "Temp"    -> pop_temp(t, idx)

translate_push(t, segment, idx) ==
    CASE segment \in {"Local", "Argument", "This", "That"} -> basic_push(t, segment, idx)
      [] segment = "Constant" -> push_const(t, idx)
      [] segment = "Static"   -> push_static(t, idx)
      [] segment = "Pointer"  -> push_ptr(t, idx)
      [] segment = "Temp"     -> push_temp(t, idx)

\* translate() of an instruction on which it does not panic
translate(t, instruction) ==
    LET op == instruction.op
    IN  CASE op = "Add"  -> const_instr_to_vec(t, ADD)
          [] op = "Sub"  -> const_instr_to_vec(t, SUBTRACT)
          [] op = "Neg"  -> const_instr_to_vec(t, NEG)
          [] op = "Eq"   -> logical_comp(t, "JEQ")
          [] op = "Gt"   -> logical_comp(t, "JGT")
          [] op = "Lt"   -> logical_comp(t, "JLT")
          [] op = "And"  -> const_instr_to_vec(t, AND)
          [] op = "Or"   -> const_instr_to_vec(t, OR)
          [] op = "Not"  -> const_instr_to_vec(t, NOT)
          [] op = "Pop"  -> translate_pop(t, instruction.segment, instruction.idx)
          [] op = "Push" -> translate_push(t, instruction.segment, instruction.idx)
          [] op = "Label"    -> label_fn(t, instruction.label)
          [] op = "Goto"     -> goto(t, instruction.label)
          [] op = "IfGoto"   -> if_goto(t, instruction.label)
          [] op = "Function" -> function(t, instruction.name, instruction.num_local_vars)
          [] op = "Call"     -> call(t, instruction.name, instruction.num_args)
          [] op = "Return"   -> const_instr_to_vec(t, RETURN)

-----------------------------------------------------------------------------
(* The drivers: translate_file and translate_directory.                    *)

\* the file stems get_static_base returns, in the order the directory is read
UnitName(k) == CASE k = 1 -> "Main" [] k = 2 -> "Sys" [] OTHER -> "Unit" \o Fmt(k)

\* the lines read_lines hands over: trimmed, without comments, not empty
GenLines ==
    { "eq", "gt", "lt", "label LOOP", "function f 1", "call f 1",
      "call Sys.init 0", "push static 3", "pop pointer 2", "gte" }

\* the entry of call_log for a call
CallEntry(name, num_args, call_counter) ==
    [ name |-> name, num_args |-> num_args,
      label |-> return_addr_label(name, call_counter) ]

GenIdle ==
    /\ translator = Translator_new("")
    /\ pc = "off"
    /\ mode = "none"
    /\ units = 0
    /\ consumed = << >>
    /\ call_log = << >>

ParseIdle == line = "" /\ parsed = NotParsed

ExecIdle ==
    /\ prog = << >>
    /\ rom = << >>
    /\ sites = << >>
    /\ steps = 0
    /\ frames = << >>
    /\ returned = << >>
    /\ ram = << >>
    /\ ram0 = << >>
    /\ areg = 0
    /\ dreg = 0
    /\ pcreg = 0
    /\ mstate = "off"

\* translate_file has built its Translator (line 474); translate_directory
\* has built its own (line 493)
GenInit ==
    /\ mode \in {"file", "directory"}
    /\ translator = Translator_new(IF mode = "file" THEN UnitName(1) ELSE "")
    /\ pc = IF mode = "file" THEN "lines" ELSE "bootstrap"
    /\ units = IF mode = "file" THEN 1 ELSE 0
    /\ consumed = << >>
    /\ call_log = << >>

\* translate_directory, line 494
SetBootstrap ==
    /\ pc = "bootstrap"
    /\ translator' = set_bootstrap(translator)
    /\ call_log' = Append(call_log, CallEntry("Sys.init", 0, translator.call_counter))
    /\ pc' = "units"
    /\ UNCHANGED << mode, units, consumed >>

\* translate_directory, lines 495-498: the next file of the directory
NextUnit ==
    /\ mode = "directory"
    /\ pc \in {"units", "lines"}
    /\ units < MaxUnits
    /\ units' = units + 1
    /\ translator' = [translator EXCEPT !.static_base = UnitName(units + 1)]
    /\ pc' = "lines"
    /\ UNCHANGED << mode, consumed, call_log >>

\* the body of the loop over the lines of a unit (lines 476-479, 499-502):
\* parse_instruction, then translate; a panic of either ends the run and
\* nothing is returned
TranslateLine ==
    /\ pc = "lines"
    /\ Len(consumed) < MaxLines
    /\ \E l \in GenLines :
         LET instruction == parse_instruction(l)
         IN  /\ consumed' = Append(consumed, l)
             /\ IF instruction = Panic \/ translate_panics(instruction)
                THEN /\ pc' = "panicked"
                     /\ UNCHANGED << translator, call_log >>
                ELSE /\ pc' = "lines"
                     /\ translator' = translate(translator, instruction)
                     /\ call_log' =
                          IF instruction.op = "Call"
                          THEN Append(call_log,
                                   CallEntry(instruction.name, instruction.num_args,
                                             translator.call_counter))
                          ELSE call_log
    /\ UNCHANGED << mode, units >>

\* the driver returns translator.asm (lines 480, 504)
Finish ==
    /\ pc \in {"units", "lines"}
    /\ pc' = "done"
    /\ UNCHANGED << translator, mode, units, consumed, call_log >>

Init == GenInit /\ ParseIdle /\ ExecIdle

Next ==
    \/ SetBootstrap /\ UNCHANGED parseVars /\ UNCHANGED execVars
    \/ NextUnit /\ UNCHANGED parseVars /\ UNCHANGED execVars
    \/ TranslateLine /\ UNCHANGED parseVars /\ UNCHANGED execVars
    \/ Finish /\ UNCHANGED parseVars /\ UNCHANGED execVars

Spec == Init /\ [][Next]_vars

-----------------------------------------------------------------------------
(* translate_file as a function of the lines read and the file stem.       *)

\* translate_file's loop (lines 476-479) over the lines left; Panic when
\* parse_instruction or translate panics
RECURSIVE translate_lines(_, _)
translate_lines(t, lines) ==
    IF lines = << >> THEN t
    ELSE LET instruction == parse_instruction(Head(lines))
         IN  IF instruction = Panic \/ translate_panics(instruction) THEN Panic
             ELSE LET t1 == translate(t, instruction)
                  IN  IF t1 = Panic THEN Panic
                      ELSE translate_lines(t1, Tail(lines))

translate_file(lines, static_base) ==
    translate_lines(Translator_new(static_base), lines)

-----------------------------------------------------------------------------
(* The output as the assembler reads it.                                   *)

\* the positions of the label-definition lines of an output
LabelLines(asm) == { i \in DOMAIN asm : IsLabelLine(asm[i]) }

\* the target address of line i of an output: the number of instructions
\* (lines that are not label definitions) before it
Addr(asm, i) == Cardinality({ j \in 1..(i - 1) : ~IsLabelLine(asm[j]) })

\* whether q is p followed by more lines
IsPrefix(p, q) == Len(p) <= Len(q) /\ SubSeq(q, 1, Len(p)) = p

\* the driver has a Translator whose output is under way or returned
Translating == pc \in {"units", "lines", "done"}

-----------------------------------------------------------------------------
(* C1 - return-address labels.                                             *)

\* C1: within one Translator, across all units and the bootstrap call, any
\* two calls get different return-address labels, each of the form
\* name$ret.<k> and defined in the output; the k-th call (from 0) gets k,
\* the call-site counter being the number of calls made so far.
C1_ReturnLabelsDistinct ==
    /\ \A i, j \in DOMAIN call_log :
         i /= j => call_log[i].label /= call_log[j].label
    /\ \A i \in DOMAIN call_log :
         /\ call_log[i].label = call_log[i].name \o "$ret." \o ToString(i - 1)
         /\ \E k \in DOMAIN translator.asm :
              translator.asm[k] = "(" \o call_log[i].label \o ")"
    /\ translator.call_counter = Len(call_log)

\* two calls of the same function name, in different units of a directory
C1_Witness ==
    /\ mode = "directory"
    /\ units = 2
    /\ \E i, j \in DOMAIN call_log :
         /\ i < j
         /\ call_log[i].name = call_log[j].name
         /\ call_log[i].name = "f"

-----------------------------------------------------------------------------
(* C3 - label-definition lines.                                            *)

\* C3: in the output a translation returns, no two label-definition lines
\* have the same text.
C3_LabelLinesUnique ==
    pc = "done" =>
        \A i, j \in LabelLines(translator.asm) :
            i /= j => translator.asm[i] /= translator.asm[j]

-----------------------------------------------------------------------------
(* C4 - the bootstrap.                                                     *)

\* the lines that set SP to its base address
SetSP == << "@256", "D=A", "@SP", "M=D" >>

\* the bootstrap sequence, spelled out: SP = 256, then Call Sys.init 0 as
\* the first call of the program
BootstrapText == SetSP \o <<
    "@Sys.init$ret.0", "D=A", "@SP", "M=M+1", "A=M-1", "M=D",
    "@LCL", "D=M", "@SP", "M=M+1", "A=M-1", "M=D",
    "@ARG", "D=M", "@SP", "M=M+1", "A=M-1", "M=D",
    "@THIS", "D=M", "@SP", "M=M+1", "A=M-1", "M=D",
    "@THAT", "D=M", "@SP", "M=M+1", "A=M-1", "M=D",
    "@5", "D=A", "@SP", "D=M-D", "@ARG", "M=D", "@SP", "D=M", "@LCL", "M=D",
    "@Sys.init", "0;JMP", "(Sys.init$ret.0)" >>

\* where the lines that set SP to 256 start in an output
SetSPAt(asm) ==
    { i \in DOMAIN asm : i + 3 <= Len(asm) /\ SubSeq(asm, i, i + 3) = SetSP }

\* the Sys.init call sites of an output: the jump to Sys.init followed by
\* the definition of a return-address label of Sys.init
SysInitSites(asm) ==
    { i \in DOMAIN asm :
        /\ i + 2 <= Len(asm)
        /\ asm[i] = "@Sys.init"
        /\ asm[i + 1] = "0;JMP"
        /\ SubSeq(asm[i + 2], 1, 14) = "(Sys.init$ret." }

\* the lines of the units, among those consumed, that are a call of Sys.init
UnitSysInitCalls ==
    { i \in DOMAIN consumed :
        LET instruction == parse_instruction(consumed[i])
        IN  instruction.op = "Call" /\ instruction.name = "Sys.init" }

\* the bootstrap is the first lines of a directory's output and SP is set
\* nowhere else; a file's output sets SP nowhere
BootstrapOnceAtStart ==
    Translating =>
        IF mode = "directory"
        THEN /\ IsPrefix(BootstrapText, translator.asm)
             /\ SetSPAt(translator.asm) = {1}
        ELSE SetSPAt(translator.asm) = { }

\* C4 as stated: the bootstrap once, at the start of a directory's output,
\* which holds exactly one Sys.init call site; none in a file's output.
C4_OneSysInitSite ==
    /\ BootstrapOnceAtStart
    /\ (Translating /\ mode = "directory") =>
           Cardinality(SysInitSites(translator.asm)) = 1

\* C4 as amended: the bootstrap once, at the start of a directory's output,
\* and it holds the one Sys.init call site that no unit wrote: the output
\* has one more Sys.init call site than the units have calls of Sys.init
\* (a file's output has exactly as many).
C4_BootstrapOnce ==
    /\ BootstrapOnceAtStart
    /\ Translating =>
           Cardinality(SysInitSites(translator.asm)) =
               (IF mode = "directory" THEN 1 ELSE 0) + Cardinality(UnitSysInitCalls)

\* a directory of two units, both with lines, translated to the end
C4_Witness ==
    /\ mode = "directory"
    /\ pc = "done"
    /\ units = 2
    /\ Len(consumed) >= 2
    /\ translator.static_base = UnitName(2)
    /\ Len(translator.asm) > Len(BootstrapText)

-----------------------------------------------------------------------------
(* C9 - the skip target of a comparison.                                   *)

\* the conditional jumps logical_comp writes; nothing else writes them
CompJumpLines == { "D;JEQ", "D;JGT", "D;JLT" }

\* the positions of the comparisons' jump instructions in an output
CompJumps(asm) == { i \in DOMAIN asm : asm[i] \in CompJumpLines }

\* the number an "@<number>" line loads, -1 when the line is not one
ALiteral(instr) ==
    IF Len(instr) > 1 /\ Char(instr, 1) = "@" /\ AllDigits(SubSeq(instr, 2, Len(instr)))
    THEN DecValue(SubSeq(instr, 2, Len(instr)), 0)
    ELSE -1

\* the skip target of the comparison whose jump is line i: what the line
\* before the jump loads into A
SkipTarget(asm, i) == IF i > 1 THEN ALiteral(asm[i - 1]) ELSE -1

\* C9 as stated: the skip target is 5 instructions past the jump
\* instruction itself.
C9_FivePastJump ==
    \A i \in CompJumps(translator.asm) :
        SkipTarget(translator.asm, i) = Addr(translator.asm, i) + 5

\* C9 as amended: the skip target is the count of instructions emitted
\* before the jump-address line plus 5, which is 5 instructions past the
\* jump-address line and 4 past the jump instruction: the address of the
\* first instruction after the comparison's block.  The three instructions
\* skipped are the write of 0 and nothing else.
C9_SkipTarget ==
    \A i \in CompJumps(translator.asm) :
        LET asm == translator.asm
        IN  /\ SkipTarget(asm, i) = Addr(asm, i - 1) + 5
            /\ SkipTarget(asm, i) = Addr(asm, i) + 4
            /\ i + 3 <= Len(asm)
            /\ SubSeq(asm, i + 1, i + 3) = << "@SP", "A=M-1", "M=0" >>
            /\ SkipTarget(asm, i) = Addr(asm, i + 3) + 1

\* two comparisons of different kinds in a directory's output, one of them
\* after two label definitions, so that its position in the output is not
\* its address
C9_Witness ==
    /\ mode = "directory"
    /\ \E i, j \in CompJumps(translator.asm) :
         /\ translator.asm[i] /= translator.asm[j]
         /\ Addr(translator.asm, i) = i - 3
         /\ SkipTarget(translator.asm, i) > 50

-----------------------------------------------------------------------------
(* C10 - the emitted-instruction counter.                                  *)

\* the number of lines of an output that are not label definitions
InstrCount(asm) == Cardinality(DOMAIN asm \ LabelLines(asm))

\* next_instr is the number of instructions in the output so far
CounterIsInstrCount == translator.next_instr = InstrCount(translator.asm)

\* a step only appends to the output; the counter grows by the number of
\* instructions appended and by nothing for the label definitions
OutputAppendOnly ==
    /\ IsPrefix(translator.asm, translator.asm')
    /\ translator.next_instr' >= translator.next_instr
    /\ translator.next_instr' - translator.next_instr =
           InstrCount(translator.asm') - InstrCount(translator.asm)

\* C10: after any sequence of translate calls, set_bootstrap and namespace
\* changes, next_instr is the number of output lines that are not label
\* definitions; the output is append-only and the counter never decreases
\* and is never reset between units.
C10_Counter == []CounterIsInstrCount /\ [][OutputAppendOnly]_vars

\* a directory's second unit is under way and label definitions as well as
\* instructions were written
C10_Witness ==
    /\ mode = "directory"
    /\ units = 2
    /\ translator.static_base = UnitName(2)
    /\ Cardinality(LabelLines(translator.asm)) >= 3
    /\ translator.next_instr > 60

-----------------------------------------------------------------------------
(* The parser on its own: one line in, one instruction value or a panic    *)
(* out.                                                                    *)

\* what may stand between two tokens of a line: one space, two spaces, a tab
Separators == { " ", "  ", "\t" }

FirstTokens ==
    { "add", "not", "pop", "push", "label", "if-goto", "function", "call",
      "return", "gte" }
SecondTokens == { "local", "constant", "pointer", "bogus", "f" }
ThirdTokens  == { "0", "10", "65535", "65536", "-1", "x", "+5" }
FourthTokens == { "2" }

\* trimmed lines of one to four tokens
ParseLines ==
    FirstTokens
    \cup { a \o s1 \o b : a \in FirstTokens, s1 \in Separators, b \in SecondTokens }
    \cup { a \o s1 \o b \o s2 \o c :
             a \in FirstTokens, s1 \in Separators, b \in SecondTokens,
             s2 \in Separators, c \in ThirdTokens }
    \cup { a \o s1 \o b \o s2 \o c \o s3 \o d :
             a \in FirstTokens, s1 \in Separators, b \in SecondTokens,
             s2 \in Separators, c \in ThirdTokens,
             s3 \in Separators, d \in FourthTokens }

ParseInit == line \in ParseLines /\ parsed = NotParsed

\* parser::parse_instruction(&line)
Parse ==
    /\ parsed = NotParsed
    /\ parsed' = parse_instruction(line)
    /\ UNCHANGED line

InitParse == ParseInit /\ GenIdle /\ ExecIdle

NextParse == Parse /\ UNCHANGED genVars /\ UNCHANGED execVars

SpecParse == InitParse /\ [][NextParse]_vars

-----------------------------------------------------------------------------
(* C7, C8 - what a line is, read as the language defines it: tokens        *)
(* separated by whitespace.                                                *)

Whitespace == { " ", "\t" }

\* the tokens of a line: the maximal runs of characters that are not
\* whitespace
RECURSIVE WsTokensFrom(_, _, _)
WsTokensFrom(s, i, cur) ==
    IF i > Len(s) THEN (IF cur = "" THEN << >> ELSE << cur >>)
    ELSE IF Char(s, i) \in Whitespace
         THEN (IF cur = "" THEN << >> ELSE << cur >>) \o WsTokensFrom(s, i + 1, "")
         ELSE WsTokensFrom(s, i + 1, cur \o Char(s, i))

WsTokens(s) == WsTokensFrom(s, 1, "")

NoOperandMnemonics ==
    { "add", "sub", "neg", "eq", "gt", "lt", "and", "or", "not", "return" }
LabelMnemonics == { "label", "goto", "if-goto" }
CountMnemonics == { "function", "call" }
Mnemonics ==
    NoOperandMnemonics \cup LabelMnemonics \cup CountMnemonics \cup { "pop", "push" }

SegmentNames ==
    { "local", "argument", "this", "that", "constant", "static", "pointer", "temp" }

\* a token that writes a non-negative integer: digits, a "+" before them
\* allowed
IsNonNegInt(tok) ==
    LET body == IF Len(tok) > 1 /\ Char(tok, 1) = "+"
                THEN SubSeq(tok, 2, Len(tok)) ELSE tok
    IN  body /= "" /\ AllDigits(body)

\* the lines C7 says must fail
MustFail(l) ==
    LET ws == WsTokens(l)
        m  == ws[1]
    IN  \/ m \notin Mnemonics
        \/ /\ m \in { "pop", "push" }
           /\ \/ Len(ws) < 3
              \/ ws[2] \notin SegmentNames
              \/ m = "pop" /\ ws[2] = "constant"
              \/ ~IsNonNegInt(ws[3])
        \/ m \in LabelMnemonics /\ Len(ws) < 2
        \/ m \in CountMnemonics /\ (Len(ws) < 3 \/ ~IsNonNegInt(ws[3]))

\* C7: parse_instruction fails for every line whose first token is no known
\* mnemonic, whose pop/push segment token is no known segment name, that is
\* pop constant, or in which a required operand is missing or is not a
\* valid non-negative integer.
C7_MalformedLinesFail ==
    (parsed /= NotParsed /\ MustFail(line)) => parsed = Panic

\* a token that writes an index or a count the instruction value can carry
IsCount(tok) == tok /= "" /\ AllDigits(tok) /\ DecValue(tok, 0) < U16Mod

\* the lines C8 is about: a known mnemonic followed by its valid operands
WellFormed(l) ==
    LET ws == WsTokens(l)
        m  == ws[1]
    IN  \/ m \in NoOperandMnemonics /\ Len(ws) = 1
        \/ /\ m \in { "pop", "push" }
           /\ Len(ws) = 3
           /\ ws[2] \in SegmentNames
           /\ ~(m = "pop" /\ ws[2] = "constant")
           /\ IsCount(ws[3])
        \/ m \in LabelMnemonics /\ Len(ws) = 2
        \/ m \in CountMnemonics /\ Len(ws) = 3 /\ IsCount(ws[3])

VariantOf(m) ==
    CASE m = "add" -> "Add" [] m = "sub" -> "Sub" [] m = "neg" -> "Neg"
      [] m = "eq" -> "Eq" [] m = "gt" -> "Gt" [] m = "lt" -> "Lt"
      [] m = "and" -> "And" [] m = "or" -> "Or" [] m = "not" -> "Not"
      [] m = "pop" -> "Pop" [] m = "push" -> "Push"
      [] m = "label" -> "Label" [] m = "goto" -> "Goto" [] m = "if-goto" -> "IfGoto"
      [] m = "function" -> "Function" [] m = "call" -> "Call"
      [] m = "return" -> "Return"

SegmentOf(name) ==
    CASE name = "local" -> "Local" [] name = "argument" -> "Argument"
      [] name = "this" -> "This" [] name = "that" -> "That"
      [] name = "constant" -> "Constant" [] name = "static" -> "Static"
      [] name = "pointer" -> "Pointer" [] name = "temp" -> "Temp"

\* the instruction value a well-formed line stands for
Expected(ws) ==
    LET m == ws[1]
    IN  CASE m \in NoOperandMnemonics -> [op |-> VariantOf(m)]
          [] m \in { "pop", "push" } ->
               [op |-> VariantOf(m), segment |-> SegmentOf(ws[2]),
                idx |-> DecValue(ws[3], 0)]
          [] m \in LabelMnemonics  -> [op |-> VariantOf(m), label |-> ws[2]]
          [] m = "function" ->
               [op |-> "Function", name |-> ws[2], num_local_vars |-> DecValue(ws[3], 0)]
          [] m = "call" ->
               [op |-> "Call", name |-> ws[2], num_args |-> DecValue(ws[3], 0)]

\* C8: for every trimmed line made of a known mnemonic followed by its
\* valid operands, the tokens separated by one or more spaces or tabs,
\* parse_instruction returns the matching variant with those operands.
C8_WellFormedLinesParsed ==
    (parsed /= NotParsed /\ WellFormed(line)) => parsed = Expected(WsTokens(line))

\* the lines whose tokens are separated by exactly one space each
SingleSpaced(l) ==
    \A i \in 1..Len(l) :
        /\ Char(l, i) /= "\t"
        /\ (Char(l, i) = " " /\ i < Len(l)) => Char(l, i + 1) /= " "

\* what the parser does achieve: on single-spaced lines it fails where C7
\* says and returns what C8 says
ParsesSingleSpaced ==
    (parsed /= NotParsed /\ SingleSpaced(line)) =>
        /\ MustFail(line) => parsed = Panic
        /\ WellFormed(line) => parsed = Expected(WsTokens(line))

-----------------------------------------------------------------------------
(* The target: the Hack assembler and the Hack machine.  Words are 16 bits *)
(* wide, addresses 15 bits; a jump compares the ALU output as a two's      *)
(* complement number.                                                      *)

Word(x) == x % U16Mod

Signed(x) == IF x >= A15Mod THEN x - U16Mod ELSE x

\* bitwise operations on 16-bit words
RECURSIVE BitAnd(_, _, _)
BitAnd(x, y, n) ==
    IF n = 0 THEN 0
    ELSE (IF x % 2 = 1 /\ y % 2 = 1 THEN 1 ELSE 0) + 2 * BitAnd(x \div 2, y \div 2, n - 1)

BitNot(x) == U16Mod - 1 - x

BitOr(x, y) == BitNot(BitAnd(BitNot(x), BitNot(y), 16))

\* the ALU: the value of a comp field for the registers A and D and the
\* memory word M = RAM[A]
Comp(c, a, d, m) ==
    CASE c = "0"   -> 0
      [] c = "1"   -> 1
      [] c = "-1"  -> Word(-1)
      [] c = "D"   -> d
      [] c = "A"   -> a
      [] c = "M"   -> m
      [] c = "!D"  -> BitNot(d)
      [] c = "!A"  -> BitNot(a)
      [] c = "!M"  -> BitNot(m)
      [] c = "-D"  -> Word(-d)
      [] c = "-A"  -> Word(-a)
      [] c = "-M"  -> Word(-m)
      [] c = "D+1" -> Word(d + 1)
      [] c = "A+1" -> Word(a + 1)
      [] c = "M+1" -> Word(m + 1)
      [] c = "D-1" -> Word(d - 1)
      [] c = "A-1" -> Word(a - 1)
      [] c = "M-1" -> Word(m - 1)
      [] c \in {"D+A", "A+D"} -> Word(d + a)
      [] c \in {"D+M", "M+D"} -> Word(d + m)
      [] c = "D-A" -> Word(d - a)
      [] c = "D-M" -> Word(d - m)
      [] c = "A-D" -> Word(a - d)
      [] c = "M-D" -> Word(m - d)
      [] c \in {"D&A", "A&D"} -> BitAnd(d, a, 16)
      [] c \in {"D&M", "M&D"} -> BitAnd(d, m, 16)
      [] c \in {"D|A", "A|D"} -> BitOr(d, a)
      [] c \in {"D|M", "M|D"} -> BitOr(d, m)

\* whether a jump field jumps on the ALU output x
Jumps(j, x) ==
    CASE j = ""    -> FALSE
      [] j = "JGT" -> Signed(x) > 0
      [] j = "JEQ" -> x = 0
      [] j = "JGE" -> Signed(x) >= 0
      [] j = "JLT" -> Signed(x) < 0
      [] j = "JNE" -> x /= 0
      [] j = "JLE" -> Signed(x) <= 0
      [] j = "JMP" -> TRUE

\* the symbols the assembler knows before it reads a program
Predefined(sym) ==
    CASE sym = "SP" -> 0 [] sym = "LCL" -> 1 [] sym = "ARG" -> 2
      [] sym = "THIS" -> 3 [] sym = "THAT" -> 4
      [] sym = "SCREEN" -> 16384 [] sym = "KBD" -> 24576
      [] Len(sym) > 1 /\ Char(sym, 1) = "R" /\ AllDigits(SubSeq(sym, 2, Len(sym)))
           /\ DecValue(SubSeq(sym, 2, Len(sym)), 0) <= 15
           -> DecValue(SubSeq(sym, 2, Len(sym)), 0)
      [] OTHER -> -1

\* the name a label-definition line defines
LabelName(instr) == SubSeq(instr, 2, Len(instr) - 1)

\* the address of a label: that of the instruction after its definition
\* (the first one, should the output define it twice); -1 when undefined
LabelAddress(asm, sym) ==
    LET defs == { i \in DOMAIN asm : IsLabelLine(asm[i]) /\ LabelName(asm[i]) = sym }
    IN  IF defs = { } THEN -1
        ELSE Cardinality({ j \in 1..((CHOOSE i \in defs : \A k \in defs : i <= k) - 1) :
                             ~IsLabelLine(asm[j]) })

\* the symbol of an A-instruction, "" for a C-instruction or a label line
ASymbol(instr) ==
    IF Len(instr) > 1 /\ Char(instr, 1) = "@" THEN SubSeq(instr, 2, Len(instr)) ELSE ""

\* whether an A-instruction's symbol is a variable: no number, not
\* predefined, no label
IsVariable(asm, sym) ==
    /\ sym /= ""
    /\ ~AllDigits(sym)
    /\ Predefined(sym) = -1
    /\ LabelAddress(asm, sym) = -1

\* the lines at which a variable is used for the first time
FirstUses(asm) ==
    { i \in DOMAIN asm :
        /\ IsVariable(asm, ASymbol(asm[i]))
        /\ \A j \in 1..(i - 1) : ASymbol(asm[j]) /= ASymbol(asm[i]) }

\* the variables of a program get the addresses from 16 on, in the order
\* of their first use
VariableAddress(asm, sym) ==
    LET first == CHOOSE i \in FirstUses(asm) : ASymbol(asm[i]) = sym
    IN  16 + Cardinality({ j \in FirstUses(asm) : j < first })

\* the value an A-instruction's symbol stands for
SymbolValue(asm, sym) ==
    IF AllDigits(sym) THEN DecValue(sym, 0)
    ELSE IF Predefined(sym) /= -1 THEN Predefined(sym)
    ELSE IF LabelAddress(asm, sym) /= -1 THEN LabelAddress(asm, sym)
    ELSE VariableAddress(asm, sym)

\* one line of assembly as an instruction of the machine
Decode(asm, instr) ==
    IF Char(instr, 1) = "@"
    THEN [ text |-> instr, kind |-> "A",
           value |-> SymbolValue(asm, ASymbol(instr)) ]
    ELSE LET eq == IndexOf(instr, "=")
             sc == IndexOf(instr, ";")
         IN  [ text |-> instr, kind |-> "C",
               dest |-> IF eq = 0 THEN "" ELSE SubSeq(instr, 1, eq - 1),
               comp |-> SubSeq(instr, eq + 1, IF sc = 0 THEN Len(instr) ELSE sc - 1),
               jump |-> IF sc = 0 THEN "" ELSE SubSeq(instr, sc + 1, Len(instr)) ]

\* the instructions of an output, label definitions left out
Instructions(asm) == SelectSeq(asm, LAMBDA l : ~IsLabelLine(l))

\* the assembler: the instruction memory for an output
Assemble(asm) ==
    LET ins == Instructions(asm)
    IN  [ i \in DOMAIN ins |-> Decode(asm, ins[i]) ]

\* an A-instruction holds 15 bits: numbers from 32768 on do not fit
FitsRom(code) == \A i \in DOMAIN code : code[i].kind = "A" => code[i].value < A15Mod

\* the instruction memory with every number cut to its low 15 bits
Truncated(code) ==
    [ i \in DOMAIN code |->
        IF code[i].kind = "A" THEN [ code[i] EXCEPT !.value = @ % A15Mod ] ELSE code[i] ]

\* data memory: the words written or set so far, every other word 0
Read(mem, a) == IF (a % A15Mod) \in DOMAIN mem THEN mem[a % A15Mod] ELSE 0

Write(mem, a, v) ==
    [ x \in DOMAIN mem \cup { a % A15Mod } |-> IF x = a % A15Mod THEN v ELSE mem[x] ]

-----------------------------------------------------------------------------
(* Running a translated file on the target.                                *)

\* the file stem of the unit that is run
ExecBase == UnitName(1)

\* push constant N, for small N and for N at both ends of what fits 15 and
\* 16 bits
ConstValues == { 0, 1, 7, A15Mod - 1, A15Mod, U16Mod - 1 }
ConstProgs == { << "push constant " \o Fmt(n) >> : n \in ConstValues }

\* push segment idx, then pop segment idx
PairSegments == { "local", "argument", "this", "that", "static", "pointer", "temp" }
PairProgs ==
    { << "push " \o sg \o " " \o Fmt(i), "pop " \o sg \o " " \o Fmt(i) >> :
        sg \in PairSegments, i \in 0..MaxIdx }
    \ { << "push pointer " \o Fmt(i), "pop pointer " \o Fmt(i) >> : i \in 2..MaxIdx }

\* a caller with n arguments on its stack calls f; f leaves one value on
\* its stack and returns
CallLeaf(n) ==
    << "call f " \o Fmt(n), "goto END",
       "function f 0", "push constant 42", "return",
       "label END" >>

\* f has locals, moves THIS and THAT and pushes more than it returns
CallBusy(n) ==
    << "call f " \o Fmt(n), "goto END",
       "function f 2", "push constant 9", "pop pointer 0", "push constant 8",
       "pop pointer 1", "push constant 3", "push constant 42", "return",
       "label END" >>

\* f calls g with one argument and returns what g returned
CallNested(n) ==
    << "call f " \o Fmt(n), "goto END",
       "function f 1", "push constant 5", "call g 1", "return",
       "function g 2", "push argument 0", "pop pointer 1", "push constant 17", "return",
       "label END" >>

CallProgs ==
    { CallLeaf(n) : n \in 0..MaxArgs } \cup { CallBusy(n) : n \in 0..MaxArgs }
    \cup { CallNested(n) : n \in 0..MaxArgs }

\* pop pointer idx and push pointer idx between two pushes of constants,
\* for idx 0 and 1 and for the indices past them
PopPointer(i) == << "push constant 7", "pop pointer " \o Fmt(i), "push constant 1" >>
PushPointer(i) == << "push constant 7", "push pointer " \o Fmt(i), "push constant 1" >>
PointerProgs ==
    { PopPointer(i) : i \in 0..MaxIdx } \cup { PushPointer(i) : i \in 0..MaxIdx }

\* the indices of the temp segment, cells 5 to 12 of the target
TempIndices == 0..7

\* f stores 11 in temp i, pushes its value and returns; the caller then
\* reads temp i
TempAcrossReturn(i) ==
    << "call f 0", "push temp " \o Fmt(i), "goto END",
       "function f 0", "push constant 11", "pop temp " \o Fmt(i),
       "push constant 42", "return",
       "label END" >>

TempProgs == { TempAcrossReturn(i) : i \in TempIndices }

ExecProgs == ConstProgs \cup PairProgs \cup CallProgs \cup PointerProgs \cup TempProgs

\* the data memory before the run: the five pointers, and a word that
\* tells its address in every cell the programs may read
StackTops == { 256, 260 }

Cells(sp) ==
    0..20 \cup (sp - 4)..(sp + 4) \cup 300..304 \cup 310..314 \cup 3000..3004
    \cup 4000..4004

Filler(fill, a) == IF fill = "low" THEN Word(a + 1000) ELSE Word(U16Mod - 1 - a)

InitRam(sp, lcl, arg, this, that, fill) ==
    [ a \in Cells(sp) |->
        CASE a = 0 -> sp [] a = 1 -> lcl [] a = 2 -> arg [] a = 3 -> this
          [] a = 4 -> that [] OTHER -> Filler(fill, a) ]

InitRams ==
    { InitRam(sp, lcl, arg, this, that, fill) :
        sp \in StackTops,
        lcl \in { 255, 300 }, arg \in { 256, 310 },
        this \in { 254, 3000 }, that \in { 257, 4000 },
        fill \in { "low", "high" } }

\* the Calls and Returns of a unit: where the code of each starts and ends
\* and, for a Call, its argument count and the address the assembler gives
\* its return-address label
RECURSIVE SitesOf(_, _, _)
SitesOf(t, lines, asm) ==
    IF lines = << >> THEN << >>
    ELSE LET instruction == parse_instruction(Head(lines))
             t1 == translate(t, instruction)
             rest == SitesOf(t1, Tail(lines), asm)
         IN  IF instruction.op = "Call"
             THEN << [ op |-> "Call", start |-> t.next_instr, end |-> t1.next_instr,
                       num_args |-> instruction.num_args,
                       ret |-> LabelAddress(asm,
                                   return_addr_label(instruction.name, t.call_counter)) ] >>
                  \o rest
             ELSE IF instruction.op = "Return"
             THEN << [ op |-> "Return", start |-> t.next_instr, end |-> t1.next_instr,
                       num_args |-> 0, ret |-> 0 ] >> \o rest
             ELSE rest

ExecInit ==
    /\ prog \in ExecProgs
    /\ ram \in InitRams
    /\ ram0 = ram
    /\ \E r \in { << 0, 0 >>, << 77, 99 >> } : areg = r[1] /\ dreg = r[2]
    /\ pcreg = 0
    /\ rom = << >>
    /\ sites = << >>
    /\ steps = 0
    /\ mstate = "idle"
    /\ frames = << >>
    /\ returned = << >>

\* translate_file panicked on the unit: it returns nothing
Aborts == translate_file(prog, ExecBase) = Panic

\* the output of translate_file for the unit
Output == translate_file(prog, ExecBase).asm

\* translate_file panicked: main never reaches write_lines, there is no
\* output to assemble
LoadAborted ==
    /\ mstate = "idle"
    /\ Aborts
    /\ mstate' = "aborted"
    /\ UNCHANGED << prog, rom, sites, steps, ram, ram0, areg, dreg, pcreg, frames,
                    returned >>

\* the assembler loads an output all of whose numbers fit
Load ==
    /\ mstate = "idle"
    /\ ~Aborts
    /\ FitsRom(Assemble(Output))
    /\ rom' = Assemble(Output)
    /\ sites' = SitesOf(Translator_new(ExecBase), prog, Output)
    /\ mstate' = IF Len(rom') = 0 THEN "halted" ELSE "running"
    /\ UNCHANGED << prog, steps, ram, ram0, areg, dreg, pcreg, frames, returned >>

\* an output with a number of 16 bits: the assembler refuses it
LoadRejected ==
    /\ mstate = "idle"
    /\ ~Aborts
    /\ ~FitsRom(Assemble(Output))
    /\ mstate' = "rejected"
    /\ UNCHANGED << prog, rom, sites, steps, ram, ram0, areg, dreg, pcreg, frames,
                    returned >>

\* an output with a number of 16 bits: the assembler keeps its low 15 bits
LoadTruncated ==
    /\ mstate = "idle"
    /\ ~Aborts
    /\ ~FitsRom(Assemble(Output))
    /\ rom' = Truncated(Assemble(Output))
    /\ sites' = SitesOf(Translator_new(ExecBase), prog, Output)
    /\ mstate' = "running"
    /\ UNCHANGED << prog, steps, ram, ram0, areg, dreg, pcreg, frames, returned >>

\* the note taken when the first instruction of a Call's code is executed
FrameNote(site) ==
    [ sp |-> Read(ram, 0), lcl |-> Read(ram, 1), arg |-> Read(ram, 2),
      this |-> Read(ram, 3), that |-> Read(ram, 4),
      num_args |-> site.num_args, ret |-> site.ret, retval |-> 0 ]

\* what the instruction at pcreg is to the Calls and Returns of the unit
SiteAt(op, edge) ==
    { k \in DOMAIN sites :
        /\ sites[k].op = op
        /\ pcreg = IF edge = "start" THEN sites[k].start ELSE sites[k].end - 1 }

\* the notes after the instruction at pcreg: a Call's first instruction
\* opens one; a Return's first instruction adds the value on top of the
\* stack to the innermost; a Return's last instruction, its jump, closes it
Watch ==
    IF SiteAt("Call", "start") /= { }
    THEN /\ frames' = Append(frames, FrameNote(sites[CHOOSE k \in SiteAt("Call", "start") : TRUE]))
         /\ returned' = << >>
    ELSE IF SiteAt("Return", "start") /= { } /\ frames /= << >>
    THEN /\ frames' = [ frames EXCEPT ![Len(frames)].retval = Read(ram, Read(ram, 0) - 1) ]
         /\ returned' = << >>
    ELSE IF SiteAt("Return", "end") /= { } /\ frames /= << >>
    THEN /\ frames' = SubSeq(frames, 1, Len(frames) - 1)
         /\ returned' = << frames[Len(frames)] >>
    ELSE /\ frames' = frames
         /\ returned' = << >>

\* the program counter after the instruction at pcreg when it goes to npc
Advance(npc) ==
    /\ pcreg' = npc
    /\ steps' = steps + 1
    /\ mstate' = IF npc >= Len(rom) THEN "halted" ELSE "running"

\* the machine executes the A-instruction at pcreg
StepA ==
    /\ mstate = "running"
    /\ steps < MaxSteps
    /\ rom[pcreg + 1].kind = "A"
    /\ areg' = rom[pcreg + 1].value
    /\ Advance(pcreg + 1)
    /\ Watch
    /\ UNCHANGED << prog, rom, sites, ram, ram0, dreg >>

\* the machine executes the C-instruction at pcreg
StepC ==
    /\ mstate = "running"
    /\ steps < MaxSteps
    /\ rom[pcreg + 1].kind = "C"
    /\ LET ins == rom[pcreg + 1]
           out == Comp(ins.comp, areg, dreg, Read(ram, areg))
           HasDest(r) == \E i \in 1..Len(ins.dest) : Char(ins.dest, i) = r
       IN  /\ areg' = IF HasDest("A") THEN out ELSE areg
           /\ dreg' = IF HasDest("D") THEN out ELSE dreg
           /\ ram'  = IF HasDest("M") THEN Write(ram, areg, out) ELSE ram
           /\ Advance(IF Jumps(ins.jump, out) THEN areg % A15Mod ELSE pcreg + 1)
    /\ Watch
    /\ UNCHANGED << prog, rom, sites, ram0 >>

InitExec == ExecInit /\ GenIdle /\ ParseIdle

NextExec ==
    \/ Load /\ UNCHANGED genVars /\ UNCHANGED parseVars
    \/ LoadRejected /\ UNCHANGED genVars /\ UNCHANGED parseVars
    \/ LoadTruncated /\ UNCHANGED genVars /\ UNCHANGED parseVars
    \/ LoadAborted /\ UNCHANGED genVars /\ UNCHANGED parseVars
    \/ StepA /\ UNCHANGED genVars /\ UNCHANGED parseVars
    \/ StepC /\ UNCHANGED genVars /\ UNCHANGED parseVars

SpecExec == InitExec /\ [][NextExec]_vars

-----------------------------------------------------------------------------
(* C6 - push constant N on the target.                                     *)

\* the run is that of a single push constant N
IsConstProg ==
    /\ Len(prog) = 1
    /\ parse_instruction(prog[1]).op = "Push"
    /\ parse_instruction(prog[1]).segment = "Constant"

\* the stack is one word deeper than before the run and its top is v
PushedOne(v) ==
    /\ Read(ram, 0) = Word(Read(ram0, 0) + 1)
    /\ Read(ram, Read(ram, 0) - 1) = v

\* C6: for every N the parser accepts in push constant N, executing the
\* emitted code makes the stack one word deeper with N on top.
C6_PushConstant ==
    (IsConstProg /\ mstate \in { "halted", "rejected" }) =>
        /\ mstate = "halted"
        /\ PushedOne(parse_instruction(prog[1]).idx)

\* what does hold: for N up to 32767 the code runs and pushes N
PushConstantFits ==
    (IsConstProg /\ mstate \in { "halted", "rejected" }
       /\ parse_instruction(prog[1]).idx < A15Mod) =>
        /\ mstate = "halted"
        /\ PushedOne(parse_instruction(prog[1]).idx)

-----------------------------------------------------------------------------
(* C5 - push segment idx, then pop segment idx.                            *)

\* the run is that of push segment idx followed by pop segment idx
IsPairProg ==
    /\ Len(prog) = 2
    /\ parse_instruction(prog[1]).op = "Push"
    /\ parse_instruction(prog[2]).op = "Pop"
    /\ parse_instruction(prog[1]).segment = parse_instruction(prog[2]).segment
    /\ parse_instruction(prog[1]).idx = parse_instruction(prog[2]).idx

\* the cell segment[idx] stands for before the run: base pointer plus idx
\* for the four pointed segments, the THIS or THAT cell for pointer, 5 + idx
\* for temp, the assembler's variable <unit>.<idx> for static
SegmentCell(segment, idx) ==
    CASE segment = "Local"    -> Word(Read(ram0, 1) + idx)
      [] segment = "Argument" -> Word(Read(ram0, 2) + idx)
      [] segment = "This"     -> Word(Read(ram0, 3) + idx)
      [] segment = "That"     -> Word(Read(ram0, 4) + idx)
      [] segment = "Pointer"  -> 3 + idx
      [] segment = "Temp"     -> 5 + idx
      [] segment = "Static"   ->
           VariableAddress(Output, ExecBase \o "." \o ToString(idx))

PairCell ==
    SegmentCell(parse_instruction(prog[1]).segment, parse_instruction(prog[1]).idx)

\* C5: for every segment that allows push and pop and every index, push
\* segment idx followed by pop segment idx leaves the stack pointer and the
\* addressed cell as they were before the push.
C5_PushPopRoundTrip ==
    (IsPairProg /\ mstate = "halted") =>
        /\ Read(ram, 0) = Read(ram0, 0)
        /\ Read(ram, PairCell) = Read(ram0, PairCell)

\* a pair on local 1 has run where local 1 is the very stack slot the push
\* wrote, the cell holding a word with its top bit set
C5_Witness ==
    /\ IsPairProg
    /\ mstate = "halted"
    /\ steps = 18
    /\ parse_instruction(prog[1]).segment = "Local"
    /\ PairCell = Read(ram0, 0)
    /\ Read(ram0, PairCell) >= A15Mod

-----------------------------------------------------------------------------
(* C2 - call, callee, return.                                              *)

\* C2: when the Return of a call has jumped back, the machine is at the
\* instruction after the call's return-address label, LCL, ARG, THIS and
\* THAT hold what they held when the call started, the value the callee had
\* on top of its stack is in the slot of the first argument (old SP - n),
\* and SP is old SP - n + 1; for n = 0 too, and for a call made inside a
\* called function.
C2_CallReturnRestores ==
    returned /= << >> =>
        LET f == returned[1]
        IN  /\ f.ret /= -1
            /\ pcreg = f.ret
            /\ Read(ram, 1) = f.lcl
            /\ Read(ram, 2) = f.arg
            /\ Read(ram, 3) = f.this
            /\ Read(ram, 4) = f.that
            /\ Read(ram, Word(f.sp - f.num_args)) = f.retval
            /\ Read(ram, 0) = Word(f.sp - f.num_args + 1)

\* the outer call of the nested program, made with no argument, has
\* returned: the inner call and its return lie behind it
C2_Witness ==
    /\ prog = CallNested(0)
    /\ returned /= << >>
    /\ returned[1].num_args = 0
    /\ returned[1].retval = 17
    /\ frames = << >>
    /\ steps > 200

-----------------------------------------------------------------------------
(* C11 - push pointer idx and pop pointer idx.                             *)

\* the run is that of a unit whose second line is a push or pop on pointer,
\* after a push of 7 and before a push of 1
IsPointerProg ==
    /\ Len(prog) = 3
    /\ parse_instruction(prog[2]).op \in { "Push", "Pop" }
    /\ parse_instruction(prog[2]).segment = "Pointer"

\* the THIS cell (address 3) for idx 0, the THAT cell (address 4) for idx 1
PointerCell(idx) == IF idx = 0 THEN 3 ELSE 4

\* pop pointer idx has put the 7 pushed before it into the cell itself and
\* left the other of the two cells alone
PoppedToCell(idx) ==
    /\ Read(ram, PointerCell(idx)) = 7
    /\ Read(ram, PointerCell(1 - idx)) = Read(ram0, PointerCell(1 - idx))
    /\ Read(ram, 0) = Word(Read(ram0, 0) + 1)
    /\ Read(ram, Read(ram0, 0)) = 1

\* push pointer idx has pushed what the cell itself held, and both cells
\* hold what they held
PushedFromCell(idx) ==
    /\ Read(ram, Word(Read(ram0, 0) + 1)) = Read(ram0, PointerCell(idx))
    /\ Read(ram, 3) = Read(ram0, 3)
    /\ Read(ram, 4) = Read(ram0, 4)
    /\ Read(ram, 0) = Word(Read(ram0, 0) + 3)
    /\ Read(ram, Word(Read(ram0, 0) + 2)) = 1

\* C11: push pointer idx and pop pointer idx use the THIS cell for idx 0 and
\* the THAT cell for idx 1, with no indirection; for every other idx the
\* translation aborts: nothing is returned for the program, neither the
\* code of the lines before the pointer line nor that of the lines after
\* it, so nothing is ever loaded or run.
C11_PointerCells ==
    IsPointerProg =>
        LET instruction == parse_instruction(prog[2])
        IN  IF instruction.idx \in { 0, 1 }
            THEN /\ mstate \in { "idle", "running", "halted" }
                 /\ mstate = "halted" =>
                      IF instruction.op = "Pop" THEN PoppedToCell(instruction.idx)
                      ELSE PushedFromCell(instruction.idx)
            ELSE /\ mstate \in { "idle", "aborted" }
                 /\ rom = << >>
                 /\ steps = 0
                 /\ ram = ram0

\* the translation of a unit with pop pointer 2 has aborted, a line that
\* translates standing before it and another after it
C11_Witness ==
    /\ IsPointerProg
    /\ mstate = "aborted"
    /\ prog = PopPointer(2)
    /\ translate_file(<< prog[1] >>, ExecBase) /= Panic
    /\ translate_file(<< prog[3] >>, ExecBase) /= Panic

\* push pointer 1 has run where THAT holds an address whose cell holds
\* another word than THAT itself
PushedThatItself ==
    /\ prog = PushPointer(1)
    /\ mstate = "halted"
    /\ Read(ram0, Read(ram0, 4)) /= Read(ram0, 4)

\* in the drivers: once a line has panicked no line is translated and the
\* driver does not return
PanicIsFinal == [][pc = "panicked" => pc' = "panicked" /\ translator' = translator]_vars

-----------------------------------------------------------------------------
(* C12 - the temp segment across Return.                                   *)

\* the run is that of a unit whose callee pops into temp i just before its
\* Return and whose caller pushes temp i just after it
IsTempProg ==
    /\ Len(prog) = 9
    /\ parse_instruction(prog[2]).op = "Push"
    /\ parse_instruction(prog[2]).segment = "Temp"
    /\ parse_instruction(prog[6]) =
         [ op |-> "Pop", segment |-> "Temp", idx |-> parse_instruction(prog[2]).idx ]
    /\ parse_instruction(prog[8]).op = "Return"

\* the value push temp i put on the stack, above the value f returned
TempRead == Read(ram, Word(Read(ram0, 0) + 1))

\* C12: for every i in 0..7 the value pop temp i stored before a Return is
\* the value push temp i reads after that Return.
C12_ReturnKeepsTemp ==
    (IsTempProg /\ mstate = "halted") => TempRead = 11

\* what does hold: the same for every i but 2 and 3, the cells 7 and 8 in
\* which RETURN keeps the frame pointer and the return address
ReturnKeepsOtherTemp ==
    (IsTempProg /\ mstate = "halted"
       /\ parse_instruction(prog[2]).idx \notin { 2, 3 }) => TempRead = 11

\* the run of such a unit has come to its end with the value f returned
\* under the value read from temp
TempProgRan ==
    /\ IsTempProg
    /\ mstate = "halted"
    /\ Read(ram, Read(ram0, 0)) = 42
    /\ Read(ram, 0) = Word(Read(ram0, 0) + 2)

=============================================================================
